---- MODULE Spec2Model ----
(***************************************************************************)
(* Holiday catalog, rule resolution and occurrence search of the dashboard *)
(* (HolidayCountdown, HolidaySettingsModal, CalendarWidget).               *)
(*                                                                         *)
(* A JavaScript Date is an instant.  It is represented by the number of    *)
(* hours its host-local wall clock reading lies after 1970-01-01T00:00     *)
(* local, so the local getters are plain arithmetic on that number and     *)
(* new Date(0), the UTC epoch, is the number hostOffset.  Daylight saving  *)
(* shifts are not modelled: the host and the fixed zone keep a constant    *)
(* distance.                                                               *)
(***************************************************************************)
EXTENDS Integers, Sequences, FiniteSets, TLC

(***************************************************************************)
(* Bounds of the model                                                     *)
(***************************************************************************)
MinYear == 1900
MaxYear == 2100
MaxCustom == 2
MaxTicks == 1
NearMinYear == 2024
NearMaxYear == 2027

(***************************************************************************)
(* Program constants                                                       *)
(***************************************************************************)
Infinity == 100000000
LAOffset == -8
HoursPerDay == 24

NoHoliday == [kind |-> "none"]

(***************************************************************************)
(* State                                                                   *)
(***************************************************************************)
VARIABLES
  hostOffset,               \* hours the host's zone is ahead of UTC
  now,                      \* the clock, new Date()
  ticks,                    \* hourly timer firings so far
  customHolidays,           \* HolidayCountdown state
  disabledDefaultHolidays,  \* HolidayCountdown state
  nextHoliday,              \* HolidayCountdown state
  showCalendar,             \* HolidayCountdown state
  showSettingsModal,        \* HolidayCountdown state
  editingHoliday,           \* HolidaySettingsModal state
  storedCustom,             \* localStorage 'customHolidays'
  storedDisabled,           \* localStorage 'disabledDefaultHolidays'
  currentDate,              \* CalendarWidget state: first day of the month shown
  storeFails,               \* localStorage.setItem throws (quota exhausted)
  storedRaw,                \* what the text under 'customHolidays' parses to
  crashed,                  \* an uncaught exception has unmounted the widget
  mounted,                  \* the page has been loaded
  alertOpen,                \* handleSaveHoliday is blocked in alert()
  specialDates,             \* Clock state
  nextSpecialDateInfo,      \* Clock state
  managerDates,             \* SpecialDatesManager state: specialDates
  showSpecialDatesManagerModal,  \* App state
  storedSpecialDates,       \* localStorage 'user-special-dates'
  timeLeft,                 \* Pomodoro state, seconds
  isRunning,                \* Pomodoro state
  isBreak,                  \* Pomodoro state
  workDuration,             \* Pomodoro state: workMinutes, workSeconds
  breakDuration,            \* Pomodoro state: breakMinutes, breakSeconds
  completedSessions,        \* Pomodoro state
  tasks,                    \* TodayPlan state
  selectedTaskId,           \* TodayPlan state, NoTask for null
  storedTasks,              \* localStorage, the tasks of TodayPlan
  liveTimers                \* the intervals set and not cleared, per timer

vars == << hostOffset, now, ticks, customHolidays, disabledDefaultHolidays,
           nextHoliday, showCalendar, showSettingsModal, editingHoliday,
           storedCustom, storedDisabled, currentDate, storeFails,
           storedRaw, crashed, mounted, alertOpen, specialDates,
           nextSpecialDateInfo, managerDates, showSpecialDatesManagerModal,
           storedSpecialDates, timeLeft, isRunning, isBreak, workDuration,
           breakDuration, completedSessions, tasks, selectedTaskId,
           storedTasks, liveTimers >>

\* the store's failure mode, the shape of the stored text, the crash flag
\* the load flag and the alert dialog
faults == << storeFails, storedRaw, crashed, mounted, alertOpen >>

\* the state of the Clock and of the special dates manager
clockVars == << specialDates, nextSpecialDateInfo, managerDates,
               showSpecialDatesManagerModal, storedSpecialDates >>

\* the state of the Pomodoro timer
pomodoroVars == << timeLeft, isRunning, isBreak, workDuration, breakDuration,
                  completedSessions >>

\* the state of the task list
planVars == << tasks, selectedTaskId, storedTasks >>

\* the state of the widgets beside the holiday countdown
widgetState == << clockVars, pomodoroVars, planVars >>

\* that state and the timers of all widgets
widgets == << widgetState, liveTimers >>

(***************************************************************************)
(* Calendar arithmetic behind new Date(y, m, d) and the local getters      *)
(***************************************************************************)
\* day number (days after 1970-01-01) of the civil date y-m-d, m in 1..12
DaysOfEra(era, yoe, doy) ==
  era * 146097 + (yoe * 365 + yoe \div 4 - yoe \div 100 + doy) - 719468

DaysOfYear(yy, mp, d) ==
  DaysOfEra(yy \div 400, yy % 400, (153 * mp + 2) \div 5 + d - 1)

DaysFromCivil(y, m, d) ==
  DaysOfYear(IF m <= 2 THEN y - 1 ELSE y, IF m > 2 THEN m - 3 ELSE m + 9, d)

\* civil date of a day number
CivilOfMonth(y, doy, mp) ==
  [year  |-> IF mp < 10 THEN y ELSE y + 1,
   month |-> IF mp < 10 THEN mp + 3 ELSE mp - 9,
   day   |-> doy - (153 * mp + 2) \div 5 + 1]

CivilOfDay(y, doy) == CivilOfMonth(y, doy, (5 * doy + 2) \div 153)

CivilOfYear(era, doe, yoe) ==
  CivilOfDay(yoe + era * 400, doe - (365 * yoe + yoe \div 4 - yoe \div 100))

CivilOfEra(era, doe) ==
  CivilOfYear(era, doe,
              (doe - doe \div 1460 + doe \div 36524 - doe \div 146096) \div 365)

CivilFromDays(z) ==
  CivilOfEra((z + 719468) \div 146097, (z + 719468) % 146097)

\* new Date(year, monthIndex, day): local midnight; a day past the end of
\* the month rolls over into the following month
NewDate(year, monthIndex, day) ==
  HoursPerDay * (DaysFromCivil(year + (monthIndex \div 12),
                               (monthIndex % 12) + 1, 1) + (day - 1))

DayNumber(t) == t \div HoursPerDay
getFullYear(t) == CivilFromDays(DayNumber(t)).year
\* getMonth is zero-based as in JavaScript
getMonth(t) == CivilFromDays(DayNumber(t)).month - 1
getDate(t) == CivilFromDays(DayNumber(t)).day
getHours(t) == t % HoursPerDay
\* 0 = Sunday; 1970-01-01 was a Thursday
getDay(t) == (DayNumber(t) + 4) % 7
\* date.setHours(0, 0, 0, 0)
setHoursZero(t) == HoursPerDay * DayNumber(t)

\* new Date(0): the UTC epoch read on a host offset hours ahead of UTC
EpochDate(offset) == offset
\* new Date(9999, 0, 1)
FarFutureDate == NewDate(9999, 0, 1)

\* date-fns-tz toZonedTime(date, 'America/Los_Angeles'): a Date whose local
\* fields read the fixed zone's wall clock at the instant date
toZonedTime(t, offset) == t - (offset - LAOffset)

\* date-fns differenceInDays(left, right): number of full days, truncated
\* toward zero
Sign(n) == IF n > 0 THEN 1 ELSE IF n < 0 THEN -1 ELSE 0
Abs(n) == IF n < 0 THEN -n ELSE n
\* isLastDayNotFull: the left date, moved back by the calendar-day
\* difference, lies on the other side of the right date
FullDays(left, right, sign, difference) ==
  IF sign # 0 /\ Sign(left - sign * difference * HoursPerDay - right) = -sign
  THEN sign * (difference - 1)
  ELSE sign * difference

differenceInDays(left, right) ==
  FullDays(left, right, Sign(left - right),
           Abs(DayNumber(left) - DayNumber(right)))

(***************************************************************************)
(* Built-in rule resolvers                                                 *)
(***************************************************************************)
NthWeekdayWeekLater(year, monthIndex, k, add) ==
  NewDate(year, monthIndex,
          1 + ((k - getDay(NewDate(year, monthIndex, 1)) + 7) % 7) + add + 7)

\* date.setDate(1 + (k - date.getDay() + 7) % 7 + add) on the first of a month
NthWeekday(year, monthIndex, k, add) ==
  NewDate(year, monthIndex,
          1 + ((k - getDay(NewDate(year, monthIndex, 1)) + 7) % 7) + add)

RECURSIVE WalkToMonday(_, _)
\* while (date.getDay() !== 1) date.setDate(date.getDate() + step)
WalkToMonday(date, step) ==
  IF getDay(date) = 1 THEN date
  ELSE WalkToMonday(date + step * HoursPerDay, step)

MemorialFromMay30(year) == WalkToMonday(NewDate(year, 4, 30), -1)

MemorialDayGetDate(year) == WalkToMonday(NewDate(year, 4, 31), -1)

LaborFromSept2(year) == WalkToMonday(NewDate(year, 8, 2), 1)

LaborDayGetDate(year) == WalkToMonday(NewDate(year, 8, 1), 1)

InaugurationWrong(year, offset) ==
  IF year % 4 = 0 THEN NewDate(year, 0, 20) ELSE EpochDate(offset)

InaugurationGetDate(year, offset) ==
  IF (year - 1) % 4 = 0 THEN NewDate(year, 0, 20) ELSE EpochDate(offset)

EasterDayFromZero(year, n) == NewDate(year, (n \div 31) - 1, n % 31)

\* month = floor(n / 31), day = n % 31 + 1 with n = h + l - 7m + 114
EasterMonthDay(year, n) == NewDate(year, (n \div 31) - 1, (n % 31) + 1)

EasterM(year, a, h, l) ==
  EasterMonthDay(year, h + l - 7 * ((a + 11 * h + 22 * l) \div 451) + 114)

\* l = (32 + 2e + 2i - h - k) % 7 with e = b % 4, i = floor(c / 4), k = c % 4
EasterL(year, a, b, c, h) ==
  EasterM(year, a, h, (32 + 2 * (b % 4) + 2 * (c \div 4) - h - (c % 4)) % 7)

\* h = (19a + b - d - g + 15) % 30 with d = floor(b / 4),
\* f = floor((b + 8) / 25), g = floor((b - f + 1) / 3)
EasterH(year, a, b, c) ==
  EasterL(year, a, b, c,
          (19 * a + b - (b \div 4) - ((b - ((b + 8) \div 25) + 1) \div 3) + 15)
            % 30)

EasterGetDate(year) == EasterH(year, year % 19, year \div 100, year % 100)

(***************************************************************************)
(* LunarConverter: the lunar-javascript library, an external oracle.       *)
(* Lunar.fromYmd raises for a month or day the lunar year does not have.   *)
(* Months have 29 or 30 days, in a pattern that differs between years;     *)
(* leap months are not modelled.                                           *)
(***************************************************************************)
LunarMonthDays(year, month) == IF (year + month) % 2 = 0 THEN 30 ELSE 29

\* day number of lunar new year: between January 21 and February 19
LunarNewYear(year) == DaysFromCivil(year, 1, 21) + ((year * 19) % 30)

RECURSIVE LunarDaysBefore(_, _)
LunarDaysBefore(year, month) ==
  IF month <= 1 THEN 0
  ELSE LunarDaysBefore(year, month - 1) + LunarMonthDays(year, month - 1)

\* Lunar.fromYmd(year, month, day).getSolar(): ok = FALSE when it raises
LunarSolar(n) ==
  [ok |-> TRUE, solarYear |-> CivilFromDays(n).year,
   solarDate |-> HoursPerDay * n]

LunarFromYmd(year, month, day) ==
  IF month \notin 1..12 \/ day < 1 \/ day > LunarMonthDays(year, month)
  THEN [ok |-> FALSE, solarYear |-> 0, solarDate |-> 0]
  ELSE LunarSolar(LunarNewYear(year) + LunarDaysBefore(year, month) + day - 1)

(***************************************************************************)
(* The value of a call of getDate: a Date, or an exception that escaped    *)
(***************************************************************************)
Returned(t) == [raised |-> FALSE, date |-> t]

\* try { ...Lunar.fromYmd(year, m, d).getSolar()... } catch { 9999-01-01 }
SolarOrFarFuture(lunar) ==
  IF lunar.ok THEN Returned(lunar.solarDate) ELSE Returned(FarFutureDate)

BuiltinLunarGetDate(year, month, day) ==
  SolarOrFarFuture(LunarFromYmd(year, month, day))

(***************************************************************************)
(* Built-in rule tables                                                    *)
(***************************************************************************)
\* HolidayCountdown's own list, the one the countdown searches
HOLIDAYS ==
  << "New Year's Day", "Martin Luther King Jr. Day", "Memorial Day",
     "Independence Day", "Thanksgiving", "Christmas Day" >>

HolidaysGetDate(name, year) ==
  CASE name = "New Year's Day" -> NewDate(year, 0, 1)
    [] name = "Martin Luther King Jr. Day" -> NthWeekday(year, 0, 15, 14)
    [] name = "Memorial Day" -> MemorialDayGetDate(year)
    [] name = "Independence Day" -> NewDate(year, 6, 4)
    [] name = "Thanksgiving" -> NthWeekday(year, 10, 4, 21)
    [] name = "Christmas Day" -> NewDate(year, 11, 25)

\* CalendarWidget's regional set A
US_HOLIDAYS ==
  << "New Year's Day", "Martin Luther King Jr. Day", "Inauguration Day",
     "Presidents' Day", "Easter Sunday", "Memorial Day", "Juneteenth",
     "Independence Day", "Labor Day", "Columbus Day", "Veterans Day",
     "Thanksgiving Day", "Christmas Day", "Halloween" >>

UsGetDate(name, year, offset) ==
  CASE name = "New Year's Day" -> NewDate(year, 0, 1)
    [] name = "Martin Luther King Jr. Day" -> NthWeekday(year, 0, 15, 14)
    [] name = "Inauguration Day" -> InaugurationGetDate(year, offset)
    [] name = "Presidents' Day" -> NthWeekday(year, 1, 15, 14)
    [] name = "Easter Sunday" -> EasterGetDate(year)
    [] name = "Memorial Day" -> MemorialDayGetDate(year)
    [] name = "Juneteenth" -> NewDate(year, 5, 19)
    [] name = "Independence Day" -> NewDate(year, 6, 4)
    [] name = "Labor Day" -> LaborDayGetDate(year)
    [] name = "Columbus Day" -> NthWeekday(year, 9, 8, 7)
    [] name = "Veterans Day" -> NewDate(year, 10, 11)
    [] name = "Thanksgiving Day" -> NthWeekday(year, 10, 4, 21)
    [] name = "Christmas Day" -> NewDate(year, 11, 25)
    [] name = "Halloween" -> NewDate(year, 9, 31)

\* the fixed solar rules of regional set A with their month and day fields
UsFixedRules ==
  { [name |-> "New Year's Day", month |-> 1, day |-> 1],
    [name |-> "Juneteenth", month |-> 6, day |-> 19],
    [name |-> "Independence Day", month |-> 7, day |-> 4],
    [name |-> "Veterans Day", month |-> 11, day |-> 11],
    [name |-> "Christmas Day", month |-> 12, day |-> 25],
    [name |-> "Halloween", month |-> 10, day |-> 31] }

\* CalendarWidget's regional set B; the names are transliterated:
\* Chun Jie, Qingming, Women's Day, Arbor Day, Labour Day, Youth Day,
\* Duanwu, Children's Day, Teachers' Day, Zhongqiu, National Day
CHINESE_HOLIDAYS ==
  << "ChunJie", "QingMingJie", "FuNvJie", "ZhiShuJie", "LaoDongJie",
     "QingNianJie", "DuanWuJie", "ErTongJie", "JiaoShiJie", "ZhongQiuJie",
     "GuoQingJie" >>

ChineseLunarRules ==
  { [name |-> "ChunJie", month |-> 1, day |-> 1],
    [name |-> "DuanWuJie", month |-> 5, day |-> 5],
    [name |-> "ZhongQiuJie", month |-> 8, day |-> 15] }

ChineseGetDate(name, year) ==
  CASE name = "ChunJie" -> BuiltinLunarGetDate(year, 1, 1)
    [] name = "QingMingJie" -> Returned(NewDate(year, 3, 5))
    [] name = "FuNvJie" -> Returned(NewDate(year, 2, 8))
    [] name = "ZhiShuJie" -> Returned(NewDate(year, 2, 12))
    [] name = "LaoDongJie" -> Returned(NewDate(year, 4, 1))
    [] name = "QingNianJie" -> Returned(NewDate(year, 4, 4))
    [] name = "DuanWuJie" -> BuiltinLunarGetDate(year, 5, 5)
    [] name = "ErTongJie" -> Returned(NewDate(year, 5, 1))
    [] name = "JiaoShiJie" -> Returned(NewDate(year, 8, 10))
    [] name = "ZhongQiuJie" -> BuiltinLunarGetDate(year, 8, 15)
    [] name = "GuoQingJie" -> Returned(NewDate(year, 9, 1))

(***************************************************************************)
(* Custom rule resolvers                                                   *)
(***************************************************************************)
\* solar.getYear() > 0 && solar.getYear() < 9999, false in the catch
SolarYearInRange(lunar) ==
  lunar.ok /\ lunar.solarYear > 0 /\ lunar.solarYear < 9999

isValidLunarDate(year, month, day) ==
  SolarYearInRange(LunarFromYmd(year, month, day))

ProbeDayOnly(year, month, day) ==
  [year |-> year, month |-> month, day |-> day]

getNextValidLunarDate(year, month, day) ==
  IF isValidLunarDate(year, month, day)
  THEN [year |-> year, month |-> month, day |-> day]
  ELSE IF isValidLunarDate(year, month, day - 1)
  THEN [year |-> year, month |-> month, day |-> day - 1]
  ELSE IF isValidLunarDate(year, month, day + 1)
  THEN [year |-> year, month |-> month, day |-> day + 1]
  ELSE [year |-> year, month |-> month, day |-> day]

\* toZonedTime(date, 'America/Los_Angeles') followed by setHours(0, 0, 0, 0)
PacificMidnight(t, offset) == setHoursZero(toZonedTime(t, offset))

\* getDate of the rule object handleSaveHoliday builds from the form
\* the try block's result, or the catch block's 9999-01-01
PacificOrFarFuture(lunar, offset) ==
  IF lunar.ok THEN Returned(PacificMidnight(lunar.solarDate, offset))
  ELSE Returned(FarFutureDate)

ConvertValidDate(validDate, offset) ==
  PacificOrFarFuture(LunarFromYmd(validDate.year, validDate.month,
                                  validDate.day), offset)

FormGetDate(h, year, offset) ==
  IF h.isLunar
  THEN ConvertValidDate(getNextValidLunarDate(year, h.month, h.day), offset)
  ELSE Returned(PacificMidnight(NewDate(year, h.month - 1, h.day), offset))

\* getDate the customHolidays initializer attaches to a stored record
StoredGetDate(h, year, offset) ==
  IF h.isLunar
  THEN PacificOrFarFuture(LunarFromYmd(year, h.month, h.day), offset)
  ELSE Returned(PacificMidnight(NewDate(year, h.month - 1, h.day), offset))

\* a custom rule carries the closure it was built with
CustomGetDate(h, year, offset) ==
  IF h.resolver = "form" THEN FormGetDate(h, year, offset)
  ELSE StoredGetDate(h, year, offset)

(***************************************************************************)
(* OccurrenceSearch                                                        *)
(***************************************************************************)
Includes(seq, x) == \E i \in 1..Len(seq) : seq[i] = x

SeqMap(Op(_), seq) == [i \in 1..Len(seq) |-> Op(seq[i])]

UnfilteredDefaultHolidays(disabled) == HOLIDAYS

\* HOLIDAYS.filter(holiday => !disabledDefaultHolidays.includes(holiday.name))
enabledDefaultHolidays(disabled) ==
  SelectSeq(HOLIDAYS, LAMBDA name : ~Includes(disabled, name))

DefaultCandidates(enabled, year) ==
  [i \in 1..Len(enabled) |->
     [kind |-> "default", name |-> enabled[i],
      date |-> HolidaysGetDate(enabled[i], year)]]

CustomCandidates(customs, year, offset) ==
  [i \in 1..Len(customs) |->
     [kind |-> "custom", name |-> customs[i].name,
      date |-> CustomGetDate(customs[i], year, offset).date]]

\* the two years a forEach pass pair covers
BothYears(currentYear) == << currentYear, currentYear + 1 >>

\* the four forEach passes of calculateNextHoliday, in order
Candidates(currentYear, disabled, customs, offset) ==
  LET years == BothYears(currentYear)
      default == [k \in 1..2 |->
                    DefaultCandidates(enabledDefaultHolidays(disabled), years[k])]
      custom == [k \in 1..2 |-> CustomCandidates(customs, years[k], offset)]
  IN  default[1] \o default[2] \o custom[1] \o custom[2]

RECURSIVE ScanCandidates(_, _, _, _, _)
\* if (daysUntilHoliday >= 0 && daysUntilHoliday < minDays) { ... }
ScanCandidates(cands, i, today, minDays, info) ==
  IF i > Len(cands) THEN info
  ELSE LET daysUntilHoliday == differenceInDays(cands[i].date, today)
       IN  IF daysUntilHoliday >= 0 /\ daysUntilHoliday < minDays
           THEN ScanCandidates(cands, i + 1, today, daysUntilHoliday, cands[i])
           ELSE ScanCandidates(cands, i + 1, today, minDays, info)

calculateNextHoliday(today, disabled, customs, offset) ==
  ScanCandidates(Candidates(getFullYear(today), disabled, customs, offset),
                 1, today, Infinity, NoHoliday)

\* the "days until" the countdown renders for a result
DisplayedDays(date, today, offset) ==
  (PacificMidnight(date, offset) - PacificMidnight(today, offset))
    \div HoursPerDay

(***************************************************************************)
(* CalendarWidget: the rules shown in the cell of a date                   *)
(***************************************************************************)
\* [...US_HOLIDAYS, ...CHINESE_HOLIDAYS, ...holidays] with the holidays prop
\* being [...HOLIDAYS, ...customHolidays]
\* the same list with the countdown's disabled names filtered out
NotDisabled(e) == ~Includes(disabledDefaultHolidays, e.name)

AllHolidaysEnabledOnly(year, customs, offset) ==
  SelectSeq(
    [i \in 1..Len(US_HOLIDAYS) |->
       [name |-> US_HOLIDAYS[i], type |-> "US",
        date |-> UsGetDate(US_HOLIDAYS[i], year, offset)]]
    \o [i \in 1..Len(CHINESE_HOLIDAYS) |->
          [name |-> CHINESE_HOLIDAYS[i], type |-> "Chinese",
           date |-> ChineseGetDate(CHINESE_HOLIDAYS[i], year).date]]
    \o [i \in 1..Len(HOLIDAYS) |->
          [name |-> HOLIDAYS[i], type |-> "Custom",
           date |-> HolidaysGetDate(HOLIDAYS[i], year)]]
    \o [i \in 1..Len(customs) |->
          [name |-> customs[i].name, type |-> "Custom",
           date |-> CustomGetDate(customs[i], year, offset).date]],
    NotDisabled)

AllHolidays(year, customs, offset) ==
  [i \in 1..Len(US_HOLIDAYS) |->
     [name |-> US_HOLIDAYS[i], type |-> "US",
      date |-> UsGetDate(US_HOLIDAYS[i], year, offset)]]
  \o [i \in 1..Len(CHINESE_HOLIDAYS) |->
        [name |-> CHINESE_HOLIDAYS[i], type |-> "Chinese",
         date |-> ChineseGetDate(CHINESE_HOLIDAYS[i], year).date]]
  \o [i \in 1..Len(HOLIDAYS) |->
        [name |-> HOLIDAYS[i], type |-> "Custom",
         date |-> HolidaysGetDate(HOLIDAYS[i], year)]]
  \o [i \in 1..Len(customs) |->
        [name |-> customs[i].name, type |-> "Custom",
         date |-> CustomGetDate(customs[i], year, offset).date]]

RECURSIVE AllMatches(_, _, _, _)
AllMatches(all, i, date, unique) ==
  IF i > Len(all) THEN unique
  ELSE IF /\ getMonth(all[i].date) = getMonth(date)
          /\ getDate(all[i].date) = getDate(date)
       THEN AllMatches(all, i + 1, date,
                       Append(unique, [name |-> all[i].name,
                                       type |-> all[i].type]))
       ELSE AllMatches(all, i + 1, date, unique)

RECURSIVE UniqueMatches(_, _, _, _)
UniqueMatches(all, i, date, unique) ==
  IF i > Len(all) THEN unique
  ELSE IF /\ getMonth(all[i].date) = getMonth(date)
          /\ getDate(all[i].date) = getDate(date)
          /\ \A j \in 1..Len(unique) : unique[j].name # all[i].name
       THEN UniqueMatches(all, i + 1, date,
                          Append(unique, [name |-> all[i].name,
                                          type |-> all[i].type]))
       ELSE UniqueMatches(all, i + 1, date, unique)

getHolidaysForDate(date, customs, offset) ==
  UniqueMatches(AllHolidays(getFullYear(date), customs, offset), 1, date, <<>>)

(***************************************************************************)
(* Persistence: JSON keeps the data fields, never the getDate closure      *)
(***************************************************************************)
Serialize(h) ==
  [name |-> h.name, month |-> h.month, day |-> h.day, isFixed |-> h.isFixed,
   isLunar |-> h.isLunar, isCustom |-> h.isCustom]

Deserialize(r) ==
  [name |-> r.name, month |-> r.month, day |-> r.day, isFixed |-> r.isFixed,
   isLunar |-> r.isLunar, isCustom |-> r.isCustom, resolver |-> "stored"]

\* inputs: the host's zone (Honolulu, Los Angeles, UTC) with the instant the
\* page is opened at, and the contents of the settings form at a submit
Sessions ==
  { [offset |-> -8, start |-> NewDate(2025, 11, 24) + 15],
    [offset |-> -10, start |-> NewDate(2025, 11, 25) + 23],
    [offset |-> 0, start |-> NewDate(2025, 11, 25) + 10] }
FormInputs ==
  { [name |-> "X", month |-> 12, day |-> 24, isFixed |-> TRUE, isLunar |-> FALSE],
    [name |-> "Y", month |-> 5, day |-> 30, isFixed |-> TRUE, isLunar |-> TRUE],
    [name |-> "X", month |-> 5, day |-> 30, isFixed |-> TRUE, isLunar |-> TRUE],
    [name |-> "Y", month |-> 5, day |-> 31, isFixed |-> TRUE, isLunar |-> TRUE] }
ToggleNames == {"Christmas Day"}
NoEdit == [name |-> ""]

\* the HolidayCountdown component renders nothing while nextHoliday is null
Rendered == nextHoliday # NoHoliday

startOfMonth(t) == NewDate(getFullYear(t), getMonth(t), 1)

\* no interval is set
NoTimers ==
  [countdown |-> 0, clockSecond |-> 0, clockHourly |-> 0, pomodoro |-> 0]

\* the effects of the mount: the hourly interval of the countdown, the
\* one-second and the hourly interval of the Clock; the Pomodoro effect sets
\* none while the timer is stopped
MountTimers ==
  [countdown |-> 1, clockSecond |-> 1, clockHourly |-> 1, pomodoro |-> 0]

CleanupForgotten(live) == live

\* the cleanup an effect returns: clearInterval of the interval it had set
clearInterval(live) == IF live > 0 THEN live - 1 ELSE 0

\* an effect that sets an interval runs again: cleanup, then setInterval
EffectAgain(live) == clearInterval(live) + 1

\* the Pomodoro effect runs again: cleanup, then setInterval in the first
\* branch only
CountdownEffect(live, running, left) ==
  IF running /\ left > 0 THEN clearInterval(live) + 1
  ELSE clearInterval(live)

\* the tree is unmounted: the cleanup of every effect runs
TornDown(timers) == [t \in DOMAIN timers |-> clearInterval(timers[t])]

\* the timers after a mount
TimersAsMounted ==
  liveTimers = IF mounted /\ ~crashed THEN MountTimers ELSE NoTimers

\* the widgets are on the page
Live == mounted /\ ~crashed

\* the task list with nothing stored
PlanIdle ==
  /\ tasks = <<>>
  /\ selectedTaskId = 0
  /\ storedTasks = <<>>

\* the Pomodoro timer as constructed: 45 minutes of work, 5 of break
PomodoroIdle ==
  /\ timeLeft = 45 * 60
  /\ isRunning = FALSE
  /\ isBreak = FALSE
  /\ workDuration = [minutes |-> 45, seconds |-> 0]
  /\ breakDuration = [minutes |-> 5, seconds |-> 0]
  /\ completedSessions = 0

\* the Clock and the special dates manager with nothing stored
ClockIdle ==
  /\ specialDates = <<>>
  /\ nextSpecialDateInfo = <<>>
  /\ managerDates = <<>>
  /\ showSpecialDatesManagerModal = FALSE
  /\ storedSpecialDates = <<>>

Init ==
  /\ \E s \in Sessions : hostOffset = s.offset /\ now = s.start
  /\ ticks = 0
  /\ customHolidays = <<>>
  /\ disabledDefaultHolidays = <<>>
  /\ nextHoliday = calculateNextHoliday(now, <<>>, <<>>, hostOffset)
  /\ showCalendar = FALSE
  /\ showSettingsModal = FALSE
  /\ editingHoliday = NoEdit
  /\ storedCustom = <<>>
  /\ storedDisabled = <<>>
  /\ currentDate = startOfMonth(now)
  /\ storeFails = FALSE
  /\ storedRaw = "list"
  /\ crashed = FALSE
  /\ mounted = TRUE
  /\ alertOpen = FALSE
  /\ ClockIdle
  /\ PomodoroIdle
  /\ PlanIdle
  /\ TimersAsMounted

(***************************************************************************)
(* HolidayCountdown effects.  After a handler has set new state the        *)
(* effects whose dependencies changed run: the persistence effects write   *)
(* the store and the search effect recomputes nextHoliday.                 *)
(***************************************************************************)
PersistNothing(customs) == <<>>

PersistCustom(customs) == SeqMap(Serialize, customs)

\* the settings modal lives inside the widget's render output: it is
\* unmounted, and its editing state lost, whenever the widget renders nothing
ModalState(next, editing) == IF next = NoHoliday THEN NoEdit ELSE editing

\* an effect threw: React finds no error boundary and unmounts the tree, so
\* nothing is rendered and no timer or handler of the widget runs again
Unmounted ==
  /\ crashed' = TRUE
  /\ liveTimers' = TornDown(liveTimers)
  /\ nextHoliday' = NoHoliday
  /\ editingHoliday' = NoEdit

CustomChanged(customs, editing) ==
  /\ customHolidays' = customs
  /\ IF storeFails
     THEN /\ Unmounted
          /\ UNCHANGED << storedCustom, storedRaw >>
     ELSE /\ storedCustom' = PersistCustom(customs)
          /\ storedRaw' = "list"
          /\ nextHoliday' = calculateNextHoliday(now, disabledDefaultHolidays,
                                                 customs, hostOffset)
          /\ editingHoliday' = ModalState(nextHoliday', editing)
          /\ liveTimers' = [liveTimers EXCEPT !.countdown = EffectAgain(@)]
          /\ UNCHANGED crashed
  /\ UNCHANGED << widgetState,
                  alertOpen, mounted, storeFails, hostOffset, now, ticks,
                  disabledDefaultHolidays,
                  showCalendar, showSettingsModal, storedDisabled,
                  currentDate >>

DisabledChanged(disabled) ==
  /\ disabledDefaultHolidays' = disabled
  /\ IF storeFails
     THEN /\ Unmounted
          /\ UNCHANGED storedDisabled
     ELSE /\ storedDisabled' = disabled
          /\ nextHoliday' = calculateNextHoliday(now, disabled, customHolidays,
                                                 hostOffset)
          /\ editingHoliday' = ModalState(nextHoliday', editingHoliday)
          /\ liveTimers' = [liveTimers EXCEPT !.countdown = EffectAgain(@)]
          /\ UNCHANGED crashed
  /\ UNCHANGED << widgetState,
                  alertOpen, mounted, storeFails, storedRaw, hostOffset, now, ticks,
                  customHolidays, showCalendar, showSettingsModal,
                  storedCustom, currentDate >>

(***************************************************************************)
(* HolidaySettingsModal handlers                                           *)
(***************************************************************************)
\* alert() blocks the page: no handler and no timer runs until it is dismissed
Interactive == Rendered /\ ~alertOpen

SettingsOpen == Interactive /\ showSettingsModal

handleAddHoliday(holiday) ==
  CustomChanged(Append(customHolidays, holiday), editingHoliday)

EditEveryRule(updatedHoliday) ==
  CustomChanged(SeqMap(LAMBDA h : updatedHoliday, customHolidays), NoEdit)

handleEditHoliday(updatedHoliday) ==
  CustomChanged(SeqMap(LAMBDA h : IF h.name = updatedHoliday.name
                                  THEN updatedHoliday ELSE h,
                       customHolidays), NoEdit)

NeverRejected(newHoliday) == FALSE

\* the lunar day validation at the head of handleSaveHoliday
LunarDayRejected(newHoliday) ==
  newHoliday.isLunar /\ (newHoliday.day < 1 \/ newHoliday.day > 30)

\* alert('Lunar day must be between 1 and 30'), then return
AlertAndReturn ==
  /\ alertOpen' = TRUE
  /\ UNCHANGED << widgets,
                  storeFails, storedRaw, crashed, mounted, hostOffset, now,
                  ticks, customHolidays, disabledDefaultHolidays, nextHoliday,
                  showCalendar, showSettingsModal, editingHoliday,
                  storedCustom, storedDisabled, currentDate >>

handleSaveHoliday(newHoliday) ==
  /\ SettingsOpen
  /\ IF LunarDayRejected(newHoliday)
     THEN AlertAndReturn
     ELSE LET holidayToSave ==
                [name |-> newHoliday.name, month |-> newHoliday.month,
                 day |-> newHoliday.day, isFixed |-> newHoliday.isFixed,
                 isLunar |-> newHoliday.isLunar, isCustom |-> TRUE,
                 resolver |-> "form"]
          IN  IF editingHoliday # NoEdit
              THEN handleEditHoliday([holidayToSave EXCEPT
                                        !.name = editingHoliday.name])
              ELSE /\ Len(customHolidays) < MaxCustom
                   /\ handleAddHoliday(holidayToSave)

SaveHoliday == \E newHoliday \in FormInputs : handleSaveHoliday(newHoliday)

\* the user closes the alert dialog
DismissAlert ==
  /\ alertOpen
  /\ alertOpen' = FALSE
  /\ UNCHANGED << widgets,
                  storeFails, storedRaw, crashed, mounted, hostOffset, now,
                  ticks, customHolidays, disabledDefaultHolidays, nextHoliday,
                  showCalendar, showSettingsModal, editingHoliday,
                  storedCustom, storedDisabled, currentDate >>

handleEditClick ==
  /\ SettingsOpen
  /\ \E i \in 1..Len(customHolidays) :
       /\ editingHoliday # customHolidays[i]
       /\ editingHoliday' = customHolidays[i]
  /\ UNCHANGED << widgets, faults, hostOffset, now, ticks, customHolidays,
                  disabledDefaultHolidays, nextHoliday, showCalendar,
                  showSettingsModal, storedCustom, storedDisabled,
                  currentDate >>

handleCancelEdit ==
  /\ SettingsOpen
  /\ editingHoliday # NoEdit
  /\ editingHoliday' = NoEdit
  /\ UNCHANGED << widgets, faults, hostOffset, now, ticks, customHolidays,
                  disabledDefaultHolidays, nextHoliday, showCalendar,
                  showSettingsModal, storedCustom, storedDisabled,
                  currentDate >>

handleDeleteHoliday ==
  /\ SettingsOpen
  /\ \E i \in 1..Len(customHolidays) :
       CustomChanged(SelectSeq(customHolidays,
                               LAMBDA h : h.name # customHolidays[i].name),
                     editingHoliday)

\* the checkbox of a default holiday hands over its new checked state
handleToggleDefaultHoliday(holidayName, enable) ==
  IF enable
  THEN DisabledChanged(SelectSeq(disabledDefaultHolidays,
                                 LAMBDA name : name # holidayName))
  ELSE DisabledChanged(Append(disabledDefaultHolidays, holidayName))

ToggleDefaultHoliday ==
  /\ SettingsOpen
  /\ \E holidayName \in ToggleNames :
       handleToggleDefaultHoliday(holidayName,
                                  Includes(disabledDefaultHolidays, holidayName))

(***************************************************************************)
(* HolidayCountdown: modals, the hourly timer, a page reload               *)
(***************************************************************************)
OpenSettings ==
  /\ Interactive /\ ~showSettingsModal /\ ~showCalendar
  /\ showSettingsModal' = TRUE
  /\ UNCHANGED << widgets, faults, hostOffset, now, ticks, customHolidays,
                  disabledDefaultHolidays, nextHoliday, showCalendar,
                  editingHoliday, storedCustom, storedDisabled, currentDate >>

handleCloseSettingsModal ==
  /\ SettingsOpen
  /\ showSettingsModal' = FALSE
  /\ editingHoliday' = NoEdit
  /\ UNCHANGED << widgets, faults, hostOffset, now, ticks, customHolidays,
                  disabledDefaultHolidays, nextHoliday, showCalendar,
                  storedCustom, storedDisabled, currentDate >>

\* a click on the widget mounts a CalendarWidget, which starts at today
OpenCalendar ==
  /\ Interactive /\ ~showSettingsModal /\ ~showCalendar
  /\ showCalendar' = TRUE
  /\ currentDate' = startOfMonth(now)
  /\ UNCHANGED << widgets, faults, hostOffset, now, ticks, customHolidays,
                  disabledDefaultHolidays, nextHoliday, showSettingsModal,
                  editingHoliday, storedCustom, storedDisabled >>

CloseCalendar ==
  /\ Interactive /\ showCalendar
  /\ showCalendar' = FALSE
  /\ UNCHANGED << widgets, faults, hostOffset, now, ticks, customHolidays,
                  disabledDefaultHolidays, nextHoliday, showSettingsModal,
                  editingHoliday, storedCustom, storedDisabled, currentDate >>

\* setInterval(calculateNextHoliday, 3600000)
Tick ==
  /\ mounted
  /\ ~crashed
  /\ ~alertOpen
  /\ ticks < MaxTicks
  /\ ticks' = ticks + 1
  /\ now' = now + 1
  /\ nextHoliday' = calculateNextHoliday(now', disabledDefaultHolidays,
                                         customHolidays, hostOffset)
  /\ editingHoliday' = ModalState(nextHoliday', editingHoliday)
  /\ UNCHANGED << widgets,
                  faults, hostOffset, customHolidays, disabledDefaultHolidays,
                  showCalendar, showSettingsModal, storedCustom,
                  storedDisabled, currentDate >>

\* a null element of the stored list
NullElement == [isNull |-> TRUE]

\* mounting throws: JSON.parse rejects the text, the parsed value has no map
\* function, the search effect calls getDate of a rule built from null, or
\* the persistence effects of the mount cannot write
MountThrows(raw, stored, fails) ==
  \/ raw # "list"
  \/ \E i \in 1..Len(stored) : stored[i] = NullElement
  \/ fails

\* the state initializers and the effects of the mount
Mounted(raw, stored, disabled, fails) ==
  /\ crashed' = MountThrows(raw, stored, fails)
  /\ IF MountThrows(raw, stored, fails)
     THEN /\ customHolidays' = <<>>
          /\ disabledDefaultHolidays' = <<>>
          /\ nextHoliday' = NoHoliday
     ELSE /\ customHolidays' = SeqMap(Deserialize, stored)
          /\ disabledDefaultHolidays' = disabled
          /\ nextHoliday' = calculateNextHoliday(now, disabled,
                                                 SeqMap(Deserialize, stored),
                                                 hostOffset)
  /\ showCalendar' = FALSE
  /\ showSettingsModal' = FALSE
  /\ editingHoliday' = NoEdit
  /\ liveTimers' = IF MountThrows(raw, stored, fails) THEN NoTimers
                   ELSE MountTimers

\* the page is loaded again: the state initializers read the store
Reload ==
  /\ ~alertOpen
  /\ \E i \in 1..Len(customHolidays) : customHolidays[i].resolver = "form"
  /\ Mounted(storedRaw, storedCustom, storedDisabled, storeFails)
  /\ UNCHANGED << widgetState,
                  alertOpen, mounted, storeFails, storedRaw, hostOffset, now, ticks,
                  storedCustom, storedDisabled, currentDate >>

Next ==
  \/ SaveHoliday
  \/ DismissAlert
  \/ handleEditClick
  \/ handleCancelEdit
  \/ handleDeleteHoliday
  \/ ToggleDefaultHoliday
  \/ OpenSettings
  \/ handleCloseSettingsModal
  \/ OpenCalendar
  \/ CloseCalendar
  \/ Tick
  \/ Reload

Spec == Init /\ [][Next]_vars

(***************************************************************************)
(* CalendarWidget: the month navigation of an open calendar.  The catalog  *)
(* is one the settings form has produced, as built by the form or as read  *)
(* back from the store.                                                    *)
(***************************************************************************)
FormCatalog ==
  << [name |-> "X", month |-> 12, day |-> 24, isFixed |-> TRUE,
      isLunar |-> FALSE, isCustom |-> TRUE, resolver |-> "form"],
     [name |-> "Y", month |-> 5, day |-> 30, isFixed |-> TRUE,
      isLunar |-> TRUE, isCustom |-> TRUE, resolver |-> "form"] >>

\* a custom rule the user named like a rule of CalendarWidget's own lists
NamesakeCatalog ==
  << [name |-> "Halloween", month |-> 10, day |-> 31, isFixed |-> TRUE,
      isLunar |-> FALSE, isCustom |-> TRUE, resolver |-> "form"] >>

CalendarCatalogs ==
  { FormCatalog, SeqMap(Deserialize, PersistCustom(FormCatalog)),
    NamesakeCatalog }

InitCalendar ==
  /\ \E s \in Sessions : hostOffset = s.offset /\ now = s.start
  /\ ticks = 0
  /\ customHolidays \in CalendarCatalogs
  /\ disabledDefaultHolidays = <<>>
  /\ nextHoliday = calculateNextHoliday(now, <<>>, customHolidays, hostOffset)
  /\ showCalendar = TRUE
  /\ showSettingsModal = FALSE
  /\ editingHoliday = NoEdit
  /\ storedCustom = PersistCustom(customHolidays)
  /\ storedDisabled = <<>>
  /\ currentDate = startOfMonth(now)
  /\ storeFails = FALSE
  /\ storedRaw = "list"
  /\ crashed = FALSE
  /\ mounted = TRUE
  /\ alertOpen = FALSE
  /\ ClockIdle
  /\ PomodoroIdle
  /\ PlanIdle
  /\ TimersAsMounted

\* setCurrentDate(addMonths(currentDate, n)); the month shown is the month of
\* the new date, kept within MinYear..MaxYear
ShowMonth(n) ==
  /\ currentDate' = NewDate(getFullYear(currentDate),
                            getMonth(currentDate) + n, 1)
  /\ getFullYear(currentDate') \in MinYear..MaxYear
  /\ UNCHANGED << widgets, faults, hostOffset, now, ticks, customHolidays,
                  disabledDefaultHolidays, nextHoliday, showCalendar,
                  showSettingsModal, editingHoliday, storedCustom,
                  storedDisabled >>

CalendarOpen == Interactive /\ showCalendar

nextMonth == CalendarOpen /\ ShowMonth(1)
prevMonth == CalendarOpen /\ ShowMonth(-1)
nextYear == CalendarOpen /\ ShowMonth(12)
prevYear == CalendarOpen /\ ShowMonth(-12)

NextCalendar ==
  \/ nextMonth
  \/ prevMonth
  \/ nextYear
  \/ prevYear

SpecCalendar == InitCalendar /\ [][NextCalendar]_vars

(***************************************************************************)
(* The countdown left running: the page is opened with a catalog and a     *)
(* disabled set read from the store, the hourly timer fires, and the user  *)
(* only switches a default holiday on or off.                              *)
(***************************************************************************)
SearchSessions ==
  { [offset |-> -8, start |-> NewDate(2025, 11, 24)],
    [offset |-> -8, start |-> NewDate(2025, 11, 24) + 23],
    [offset |-> 0, start |-> NewDate(2025, 11, 31) + 23],
    [offset |-> -10, start |-> NewDate(2025, 11, 25) + 23] }

StoredCatalog == SeqMap(Deserialize, PersistCustom(FormCatalog))

SearchCatalogs ==
  { <<>>, FormCatalog, StoredCatalog, << StoredCatalog[2] >>,
    << [name |-> "X", month |-> 12, day |-> 24, isFixed |-> TRUE,
        isLunar |-> FALSE, isCustom |-> TRUE, resolver |-> "stored"],
       [name |-> "Y", month |-> 12, day |-> 24, isFixed |-> TRUE,
        isLunar |-> FALSE, isCustom |-> TRUE, resolver |-> "stored"] >> }

SearchDisabled == { <<>>, HOLIDAYS, SubSeq(HOLIDAYS, 1, 5) }

InitSearch ==
  /\ \E s \in SearchSessions : hostOffset = s.offset /\ now = s.start
  /\ ticks = 0
  /\ customHolidays \in SearchCatalogs
  /\ disabledDefaultHolidays \in SearchDisabled
  /\ nextHoliday = calculateNextHoliday(now, disabledDefaultHolidays,
                                        customHolidays, hostOffset)
  /\ showCalendar = FALSE
  /\ showSettingsModal = FALSE
  /\ editingHoliday = NoEdit
  /\ storedCustom = PersistCustom(customHolidays)
  /\ storedDisabled = disabledDefaultHolidays
  /\ currentDate = startOfMonth(now)
  /\ storeFails = FALSE
  /\ storedRaw = "list"
  /\ crashed = FALSE
  /\ mounted = TRUE
  /\ alertOpen = FALSE
  /\ ClockIdle
  /\ PomodoroIdle
  /\ PlanIdle
  /\ TimersAsMounted

NextSearch ==
  \/ Tick
  \/ OpenSettings
  \/ ToggleDefaultHoliday
  \/ handleCloseSettingsModal

SpecSearch == InitSearch /\ [][NextSearch]_vars

(***************************************************************************)
(* Clock: the special dates coming up within a week.  The Clock keeps its  *)
(* own copy of the list, read from the store when the page is loaded; the  *)
(* SpecialDatesManager, mounted while its modal is open, keeps another.    *)
(***************************************************************************)
MaxSpecial == 2
MaxClockTicks == 3
MaxId == 3

isFuture(date, clock) == date > clock
isBefore(date, dateToCompare) == date < dateToCompare

UpcomingEntry(sDate, days) ==
  [name |-> sDate.name, days |-> days, type |-> sDate.type]

\* the first if of the loop body: this year's date, today or later
ThisYearEntries(sDate, sDateThisYear, today, clock) ==
  IF /\ \/ isFuture(sDateThisYear, clock)
        \/ ~isFuture(sDateThisYear, clock) /\ ~isBefore(sDateThisYear, today)
     /\ differenceInDays(sDateThisYear, today) >= 0
     /\ differenceInDays(sDateThisYear, today) <= 7
  THEN << UpcomingEntry(sDate, differenceInDays(sDateThisYear, today)) >>
  ELSE <<>>

\* the second if of the loop body: next year's date
NextYearEntries(sDate, sDateThisYear, sDateNextYear, today) ==
  IF /\ \/ isBefore(sDateThisYear, today)
        \/ differenceInDays(sDateThisYear, today) > 7
     /\ differenceInDays(sDateNextYear, today) >= 0
     /\ differenceInDays(sDateNextYear, today) <= 7
  THEN << UpcomingEntry(sDate, differenceInDays(sDateNextYear, today)) >>
  ELSE <<>>

EntriesOf(sDate, today, clock) ==
  ThisYearEntries(sDate, NewDate(getFullYear(today), sDate.month - 1,
                                 sDate.day), today, clock)
    \o NextYearEntries(sDate,
                       NewDate(getFullYear(today), sDate.month - 1, sDate.day),
                       NewDate(getFullYear(today) + 1, sDate.month - 1,
                               sDate.day), today)

RECURSIVE UpcomingDates(_, _, _, _)
\* for (const sDate of specialDates) { ... upcomingDates.push(...) }
UpcomingDates(dates, k, today, clock) ==
  IF k > Len(dates) THEN <<>>
  ELSE EntriesOf(dates[k], today, clock)
         \o UpcomingDates(dates, k + 1, today, clock)

RECURSIVE InsertByDays(_, _)
\* the place Array.prototype.sort, which is stable, gives an entry
InsertByDays(sorted, entry) ==
  IF sorted = <<>> THEN << entry >>
  ELSE IF sorted[Len(sorted)].days <= entry.days THEN Append(sorted, entry)
  ELSE Append(InsertByDays(SubSeq(sorted, 1, Len(sorted) - 1), entry),
              sorted[Len(sorted)])

RECURSIVE SortByDays(_, _)
\* upcomingDates.sort((a, b) => a.days - b.days)
SortByDays(entries, k) ==
  IF k = 0 THEN <<>>
  ELSE InsertByDays(SortByDays(entries, k - 1), entries[k])

calculateNextSpecialDate(dates, clock) ==
  SortByDays(UpcomingDates(dates, 1, setHoursZero(clock), clock),
             Len(UpcomingDates(dates, 1, setHoursZero(clock), clock)))

\* the filter of the Clock's specialDates initializer
IsSpecialDate(date) ==
  /\ date.month \in 1..12
  /\ date.day \in 1..31
  /\ date.type \in {"birthday", "anniversary"}

\* what the manager's form holds at a click on Add or Update
SpecialInputs ==
  { [name |-> "A", month |-> 1, day |-> 2, type |-> "birthday"],
    [name |-> "B", month |-> 12, day |-> 31, type |-> "anniversary"],
    [name |-> "C", month |-> 2, day |-> 30, type |-> "birthday"],
    [name |-> "D", month |-> 13, day |-> 1, type |-> "birthday"] }

\* the instants the page is opened at, on a host in Los Angeles
ClockSessions ==
  { NewDate(2025, 11, 27) + 10, NewDate(2026, 1, 24) + 23 }

\* the lists an earlier visit has left in the store
StoredSpecialLists ==
  { <<>>,
    << [id |-> 1, name |-> "A", month |-> 1, day |-> 2, type |-> "birthday"],
       [id |-> 2, name |-> "B", month |-> 12, day |-> 31,
        type |-> "anniversary"] >>,
    << [id |-> 1, name |-> "C", month |-> 2, day |-> 30,
        type |-> "birthday"] >> }

\* the Clock is mounted: the initializer reads the store, the save effect
\* writes the list back and the calculation effect runs
ClockMounted(stored, clock) ==
  /\ specialDates = SelectSeq(stored, IsSpecialDate)
  /\ storedSpecialDates = specialDates
  /\ nextSpecialDateInfo = calculateNextSpecialDate(specialDates, clock)

\* the holiday countdown as in Init, left alone by the Clock
CountdownIdle ==
  /\ ticks = 0
  /\ customHolidays = <<>>
  /\ disabledDefaultHolidays = <<>>
  /\ nextHoliday = calculateNextHoliday(now, <<>>, <<>>, hostOffset)
  /\ showCalendar = FALSE
  /\ showSettingsModal = FALSE
  /\ editingHoliday = NoEdit
  /\ storedCustom = <<>>
  /\ storedDisabled = <<>>
  /\ currentDate = startOfMonth(now)
  /\ storeFails = FALSE
  /\ storedRaw = "list"
  /\ crashed = FALSE
  /\ mounted = TRUE
  /\ alertOpen = FALSE

countdownState ==
  << customHolidays, disabledDefaultHolidays, nextHoliday, showCalendar,
     showSettingsModal, editingHoliday, storedCustom, storedDisabled,
     currentDate, faults >>

countdownVars == << ticks, countdownState >>

InitClock ==
  /\ hostOffset = -8
  /\ now \in ClockSessions
  /\ CountdownIdle
  /\ \E stored \in StoredSpecialLists : ClockMounted(stored, now)
  /\ managerDates = <<>>
  /\ showSpecialDatesManagerModal = FALSE
  /\ PomodoroIdle
  /\ PlanIdle
  /\ TimersAsMounted

\* time passes and the Clock's timers fire: setTime(new Date()) re-runs the
\* calculation effect; the hourly interval of the countdown fires as well
ClockTick ==
  /\ Live
  /\ ticks < MaxClockTicks
  /\ ticks' = ticks + 1
  /\ \E hours \in {1, 24} : now' = now + hours
  /\ nextSpecialDateInfo' = calculateNextSpecialDate(specialDates, now')
  /\ nextHoliday' = calculateNextHoliday(now', disabledDefaultHolidays,
                                         customHolidays, hostOffset)
  /\ liveTimers' = [liveTimers EXCEPT !.clockHourly = EffectAgain(@)]
  /\ UNCHANGED << hostOffset, customHolidays, disabledDefaultHolidays,
                  showCalendar, showSettingsModal, editingHoliday,
                  storedCustom, storedDisabled, currentDate, faults,
                  specialDates, managerDates, showSpecialDatesManagerModal,
                  storedSpecialDates, pomodoroVars, planVars >>

\* the settings button of the Clock: App mounts a SpecialDatesManager, whose
\* initializer reads the store and whose save effect writes the list back
handleOpenSpecialDatesManager ==
  /\ Live
  /\ ~showSpecialDatesManagerModal
  /\ showSpecialDatesManagerModal' = TRUE
  /\ managerDates' = storedSpecialDates
  /\ UNCHANGED << liveTimers, planVars, pomodoroVars, hostOffset, now,
                  countdownVars, specialDates,
                  nextSpecialDateInfo, storedSpecialDates >>

handleCloseSpecialDatesManager ==
  /\ Live
  /\ showSpecialDatesManagerModal
  /\ showSpecialDatesManagerModal' = FALSE
  /\ managerDates' = <<>>
  /\ UNCHANGED << liveTimers, planVars, pomodoroVars, hostOffset, now,
                  countdownVars, specialDates,
                  nextSpecialDateInfo, storedSpecialDates >>

\* setSpecialDates of the manager, then its save effect
ManagerChanged(dates) ==
  /\ Live
  /\ showSpecialDatesManagerModal
  /\ managerDates' = dates
  /\ storedSpecialDates' = dates
  /\ UNCHANGED << liveTimers, planVars, pomodoroVars, hostOffset, now,
                  countdownVars, specialDates,
                  nextSpecialDateInfo, showSpecialDatesManagerModal >>

\* String(Date.now()): later than every id given before
NewId(dates) ==
  1 + (CHOOSE m \in {0} \cup { dates[i].id : i \in 1..Len(dates) } :
         \A i \in 1..Len(dates) : dates[i].id <= m)

FormValid(input) == input.month \in 1..12 /\ input.day \in 1..31

\* addOrUpdateSpecialDate with no entry being edited
addSpecialDate ==
  /\ Len(managerDates) < MaxSpecial
  /\ NewId(managerDates) <= MaxId
  /\ \E input \in SpecialInputs :
       /\ FormValid(input)
       /\ ManagerChanged(Append(managerDates,
                                [id |-> NewId(managerDates),
                                 name |-> input.name, month |-> input.month,
                                 day |-> input.day, type |-> input.type]))

\* startEdit of an entry, then addOrUpdateSpecialDate
updateSpecialDate ==
  \E k \in 1..Len(managerDates) : \E input \in SpecialInputs :
    /\ FormValid(input)
    /\ managerDates[k].name # input.name
    /\ ManagerChanged([managerDates EXCEPT
                         ![k] = [id |-> managerDates[k].id,
                                 name |-> input.name, month |-> input.month,
                                 day |-> input.day, type |-> input.type]])

deleteSpecialDate ==
  \E k \in 1..Len(managerDates) :
    ManagerChanged(SelectSeq(managerDates,
                             LAMBDA date : date.id # managerDates[k].id))

\* the page is loaded again: App starts with the modal closed and the Clock
\* is mounted anew
ReloadPage ==
  /\ Live
  /\ specialDates # SelectSeq(storedSpecialDates, IsSpecialDate)
  /\ specialDates' = SelectSeq(storedSpecialDates, IsSpecialDate)
  /\ storedSpecialDates' = specialDates'
  /\ nextSpecialDateInfo' = calculateNextSpecialDate(specialDates', now)
  /\ showSpecialDatesManagerModal' = FALSE
  /\ managerDates' = <<>>
  /\ liveTimers' = MountTimers
  /\ UNCHANGED << planVars, pomodoroVars, hostOffset, now, countdownVars >>

NextClock ==
  \/ ClockTick
  \/ handleOpenSpecialDatesManager
  \/ handleCloseSpecialDatesManager
  \/ addSpecialDate
  \/ updateSpecialDate
  \/ deleteSpecialDate
  \/ ReloadPage

SpecClock == InitClock /\ [][NextClock]_vars

(***************************************************************************)
(* Pomodoro.  The countdown effect runs after every render in which one of *)
(* isRunning, timeLeft, isBreak or a duration field has changed: with time *)
(* left it starts the one-second interval, at 0 it ends the phase.  A      *)
(* state with timeLeft = 0 always has that effect pending, and it runs     *)
(* before the next event is handled.                                       *)
(***************************************************************************)
MaxCountdown == 3
MaxSessions == 2

getTotalSeconds(duration) == duration.minutes * 60 + duration.seconds

Max(a, b) == IF a > b THEN a ELSE b
Min(a, b) == IF a < b THEN a ELSE b

\* what the number inputs of the settings panel can hold
TypedDurations ==
  { [minutes |-> 0, seconds |-> s] : s \in {-1, 0, 1, 2, 75} }

Settled == timeLeft # 0

\* the interval callback: setTimeLeft(prev => prev - 1)
PomodoroTick ==
  /\ Live
  /\ isRunning /\ timeLeft > 0 /\ timeLeft <= MaxCountdown
  /\ timeLeft' = timeLeft - 1
  /\ UNCHANGED << isRunning, isBreak, workDuration, breakDuration,
                  completedSessions, clockVars, planVars, hostOffset,
                  now, countdownVars >>
  /\ liveTimers' = [liveTimers EXCEPT
                     !.pomodoro = CountdownEffect(@, isRunning', timeLeft')]

\* the else-if branch of the countdown effect
PhaseEnds ==
  /\ Live
  /\ timeLeft = 0
  /\ completedSessions < MaxSessions
  /\ isRunning' = FALSE
  /\ isBreak' = ~isBreak
  /\ timeLeft' = IF isBreak THEN getTotalSeconds(workDuration)
                 ELSE getTotalSeconds(breakDuration)
  /\ completedSessions' = IF ~isBreak THEN completedSessions + 1
                          ELSE completedSessions
  /\ UNCHANGED << workDuration, breakDuration, clockVars, planVars,
                  hostOffset, now, countdownVars >>
  /\ liveTimers' = [liveTimers EXCEPT
                     !.pomodoro = CountdownEffect(@, isRunning', timeLeft')]

toggleTimer ==
  /\ Live
  /\ Settled
  /\ isRunning' = ~isRunning
  /\ UNCHANGED << timeLeft, isBreak, workDuration, breakDuration,
                  completedSessions, clockVars, planVars, hostOffset,
                  now, countdownVars >>
  /\ liveTimers' = [liveTimers EXCEPT
                     !.pomodoro = CountdownEffect(@, isRunning', timeLeft')]

resetTimer ==
  /\ Live
  /\ Settled
  /\ isRunning' = FALSE
  /\ isBreak' = FALSE
  /\ timeLeft' = getTotalSeconds(workDuration)
  /\ UNCHANGED << workDuration, breakDuration, completedSessions, clockVars,
                  planVars, hostOffset, now, countdownVars >>
  /\ liveTimers' = [liveTimers EXCEPT
                     !.pomodoro = CountdownEffect(@, isRunning', timeLeft')]

\* onChange of the work inputs and of the break inputs
TypeDurations ==
  /\ Live
  /\ Settled
  /\ \E work \in TypedDurations, break \in TypedDurations :
       /\ workDuration' = work
       /\ breakDuration' = break
       /\ << work, break >> # << workDuration, breakDuration >>
  /\ UNCHANGED << timeLeft, isRunning, isBreak, completedSessions, clockVars,
                  planVars, hostOffset, now, countdownVars >>
  /\ liveTimers' = [liveTimers EXCEPT
                     !.pomodoro = CountdownEffect(@, isRunning', timeLeft')]

\* Math.max(0, minutes) and Math.min(59, Math.max(0, seconds))
ValidDuration(duration) ==
  [minutes |-> Max(0, duration.minutes),
   seconds |-> Min(59, Max(0, duration.seconds))]

handleSaveSettings ==
  /\ Live
  /\ Settled
  /\ workDuration' = ValidDuration(workDuration)
  /\ breakDuration' = ValidDuration(breakDuration)
  /\ timeLeft' = getTotalSeconds(ValidDuration(workDuration))
  /\ isRunning' = FALSE
  /\ isBreak' = FALSE
  /\ UNCHANGED << completedSessions, clockVars, planVars, hostOffset,
                  now, countdownVars >>
  /\ liveTimers' = [liveTimers EXCEPT
                     !.pomodoro = CountdownEffect(@, isRunning', timeLeft')]

InitPomodoro ==
  /\ hostOffset = -8
  /\ now = NewDate(2025, 11, 24) + 15
  /\ CountdownIdle
  /\ ClockIdle
  /\ PomodoroIdle
  /\ PlanIdle
  /\ TimersAsMounted

NextPomodoro ==
  \/ PomodoroTick
  \/ PhaseEnds
  \/ toggleTimer
  \/ resetTimer
  \/ TypeDurations
  \/ handleSaveSettings

SpecPomodoro == InitPomodoro /\ [][NextPomodoro]_vars

(***************************************************************************)
(* TodayPlan.  A task is its id and its two flags; the text of a task is   *)
(* never read by the operations, so it is left out.  The list is shown     *)
(* sorted, must-do first, and every change of the list is written to the   *)
(* store by the save effect; a failing write is swallowed and not          *)
(* modelled.                                                               *)
(***************************************************************************)
MaxTasks == 3
MaxTaskId == 3

NoTask == 0

\* [...tasks].sort(...): the sort is stable
sortedTasks(list) ==
  SelectSeq(list, LAMBDA task : task.mustDo)
    \o SelectSeq(list, LAMBDA task : ~task.mustDo)

\* findIndex, counted from 1; 0 when there is none
findIndex(list, id) ==
  IF \E i \in 1..Len(list) : list[i].id = id
  THEN CHOOSE i \in 1..Len(list) :
         list[i].id = id /\ \A j \in 1..(i - 1) : list[j].id # id
  ELSE 0

Swap(list, i, j) ==
  [k \in 1..Len(list) |->
     IF k = i THEN list[j] ELSE IF k = j THEN list[i] ELSE list[k]]

\* moveTask(index, direction): the swap is made in tasks
moveTask(list, index, direction) ==
  IF direction = "up"
  THEN IF index = 1 THEN list ELSE Swap(list, index - 1, index)
  ELSE IF index = Len(list) THEN list ELSE Swap(list, index + 1, index)

\* Date.now() of a later moment
NewTaskId(list) ==
  1 + (IF list = <<>> THEN 0
       ELSE CHOOSE n \in { list[i].id : i \in 1..Len(list) } :
              \A i \in 1..Len(list) : list[i].id <= n)

PlanChanged(newTasks, newSelected) ==
  /\ Live
  /\ tasks' = newTasks
  /\ selectedTaskId' = newSelected
  /\ storedTasks' = newTasks
  /\ UNCHANGED << clockVars, pomodoroVars, liveTimers, hostOffset, now,
                  countdownVars >>

addTask ==
  /\ Len(tasks) < MaxTasks
  /\ NewTaskId(tasks) <= MaxTaskId
  /\ PlanChanged(Append(tasks, [id |-> NewTaskId(tasks), completed |-> FALSE,
                                mustDo |-> FALSE]),
                 NoTask)

Clicked(id) == IF id = selectedTaskId THEN NoTask ELSE id

handleTaskClick ==
  \E i \in 1..Len(tasks) :
    PlanChanged(tasks, Clicked(tasks[i].id))

\* the click on the checkbox reaches the row as well
toggleTask ==
  \E i \in 1..Len(tasks) :
    PlanChanged([tasks EXCEPT ![i].completed = ~@], Clicked(tasks[i].id))

toggleMustDo ==
  \E i \in 1..Len(tasks) :
    PlanChanged([tasks EXCEPT ![i].mustDo = ~@], selectedTaskId)

deleteTask ==
  \E i \in 1..Len(tasks) :
    PlanChanged(SelectSeq(tasks, LAMBDA task : task.id # tasks[i].id),
                NoTask)

\* handleKeyDown for ArrowUp and ArrowDown
KeyDown(key) ==
  /\ selectedTaskId # NoTask
  /\ findIndex(sortedTasks(tasks), selectedTaskId) # 0
  /\ IF key = "ArrowUp"
     THEN findIndex(sortedTasks(tasks), selectedTaskId) > 1
     ELSE findIndex(sortedTasks(tasks), selectedTaskId) < Len(tasks)
  /\ PlanChanged(moveTask(tasks,
                          findIndex(sortedTasks(tasks), selectedTaskId),
                          IF key = "ArrowUp" THEN "up" ELSE "down"),
                 selectedTaskId)

ArrowUp == KeyDown("ArrowUp") /\ selectedTaskId' = selectedTaskId

ArrowDown == KeyDown("ArrowDown") /\ selectedTaskId' = selectedTaskId

InitPlan ==
  /\ hostOffset = -8
  /\ now = NewDate(2025, 11, 24) + 15
  /\ CountdownIdle
  /\ ClockIdle
  /\ PomodoroIdle
  /\ PlanIdle
  /\ TimersAsMounted

NextPlan ==
  \/ addTask
  \/ handleTaskClick
  \/ toggleTask
  \/ toggleMustDo
  \/ deleteTask
  \/ ArrowUp
  \/ ArrowDown

SpecPlan == InitPlan /\ [][NextPlan]_vars

(***************************************************************************)
(* The store as the widget finds it.  The text under 'customHolidays' may  *)
(* have been written by anything, and the quota of localStorage may run    *)
(* out while the page is open.                                             *)
(***************************************************************************)
\* a stored record whose month no calendar has
OutOfRangeRecord ==
  [name |-> "Z", month |-> 13, day |-> 1, isFixed |-> TRUE,
   isLunar |-> FALSE, isCustom |-> TRUE]

\* what the persistence effect of the mount writes back: a rule built from
\* null has no field but getDate, and that one is left out
EmptyRecord == [isEmpty |-> TRUE]
WrittenBack(r) == IF r = NullElement THEN EmptyRecord ELSE r

StoredTexts ==
  { [raw |-> "list", list |-> <<>>],
    [raw |-> "list", list |-> PersistCustom(FormCatalog)],
    [raw |-> "list", list |-> << OutOfRangeRecord >>],
    [raw |-> "list", list |-> << PersistCustom(FormCatalog)[1],
                                 OutOfRangeRecord >>],
    [raw |-> "list", list |-> << NullElement >>],
    [raw |-> "unparsable", list |-> <<>>],
    [raw |-> "object", list |-> <<>>] }

InitStore ==
  /\ hostOffset = -8
  /\ now = NewDate(2025, 11, 24) + 15
  /\ ticks = 0
  /\ customHolidays = <<>>
  /\ disabledDefaultHolidays = <<>>
  /\ nextHoliday = NoHoliday
  /\ showCalendar = FALSE
  /\ showSettingsModal = FALSE
  /\ editingHoliday = NoEdit
  /\ \E text \in StoredTexts : storedRaw = text.raw /\ storedCustom = text.list
  /\ storedDisabled = <<>>
  /\ currentDate = startOfMonth(now)
  /\ storeFails = FALSE
  /\ crashed = FALSE
  /\ mounted = FALSE
  /\ alertOpen = FALSE
  /\ ClockIdle
  /\ PomodoroIdle
  /\ PlanIdle
  /\ TimersAsMounted

\* the page is opened: the state initializers read the store and the effects
\* of the mount run, the persistence effects before the search effect
Load ==
  /\ ~mounted
  /\ mounted' = TRUE
  /\ Mounted(storedRaw, storedCustom, storedDisabled, storeFails)
  /\ storedCustom' = IF storedRaw = "list" /\ ~storeFails
                     THEN SeqMap(WrittenBack, storedCustom)
                     ELSE storedCustom
  /\ UNCHANGED << widgetState,
                  alertOpen, storeFails, storedRaw, hostOffset, now, ticks,
                  storedDisabled, currentDate >>

\* localStorage.setItem starts to throw
QuotaExhausted ==
  /\ mounted
  /\ ~crashed
  /\ ~storeFails
  /\ storeFails' = TRUE
  /\ UNCHANGED << widgets,
                  alertOpen, storedRaw, crashed, mounted, hostOffset, now,
                  ticks,
                  customHolidays, disabledDefaultHolidays, nextHoliday,
                  showCalendar, showSettingsModal, editingHoliday,
                  storedCustom, storedDisabled, currentDate >>

NextStore == Load \/ QuotaExhausted \/ Next

SpecStore == InitStore /\ [][NextStore]_vars

(***************************************************************************)
(* The recurring timers of the widgets.  App renders every widget          *)
(* unconditionally, so a widget is torn down only when React unmounts the  *)
(* tree, which it does when an effect throws.                              *)
(***************************************************************************)
\* the Pomodoro timer after 0:02 of work and 0:01 of break have been saved
PomodoroShort ==
  /\ timeLeft = 2
  /\ isRunning = FALSE
  /\ isBreak = FALSE
  /\ workDuration = [minutes |-> 0, seconds |-> 2]
  /\ breakDuration = [minutes |-> 0, seconds |-> 1]
  /\ completedSessions = 0

InitTimers ==
  /\ hostOffset = -8
  /\ now = NewDate(2025, 11, 24) + 15
  /\ CountdownIdle
  /\ ClockIdle
  /\ PomodoroShort
  /\ PlanIdle
  /\ TimersAsMounted

NextTimers ==
  \/ OpenSettings
  \/ ToggleDefaultHoliday
  \/ handleCloseSettingsModal
  \/ QuotaExhausted
  \/ ClockTick
  \/ toggleTimer
  \/ PomodoroTick
  \/ PhaseEnds
  \/ resetTimer

SpecTimers == InitTimers /\ [][NextTimers]_vars

(***************************************************************************)
(* Properties of the occurrence search                                     *)
(***************************************************************************)
\* the candidates the search ran over in the current state
CurrentCandidates ==
  Candidates(getFullYear(now), disabledDefaultHolidays, customHolidays,
             hostOffset)

\* the cells CalendarWidget renders: eachDayOfInterval over the month shown
DaysShown ==
  { currentDate + HoursPerDay * k :
      k \in 0..((NewDate(getFullYear(currentDate), getMonth(currentDate) + 1, 1)
                 - currentDate) \div HoursPerDay - 1) }

NamesOf(list) == { list[i].name : i \in 1..Len(list) }

\* the names the calendar lists in the cell of a date
NamesOn(date) == NamesOf(getHolidaysForDate(date, customHolidays, hostOffset))

\* C1: the result is the candidate with the smallest non-negative
\* day-difference on dates normalized to the fixed zone with the time zeroed
\* (so a rule occurring today wins with difference 0), and the difference the
\* search selected by is the difference the countdown displays.
C1_NearestByDisplayedDays ==
  Rendered =>
    /\ \A i \in 1..Len(CurrentCandidates) :
         DisplayedDays(CurrentCandidates[i].date, now, hostOffset) >= 0
           => DisplayedDays(nextHoliday.date, now, hostOffset)
                <= DisplayedDays(CurrentCandidates[i].date, now, hostOffset)
    /\ differenceInDays(nextHoliday.date, now)
         = DisplayedDays(nextHoliday.date, now, hostOffset)

\* C2: the day-difference the countdown displays for the result is never
\* negative.
C2_DisplayedDaysNonNegative ==
  Rendered => DisplayedDays(nextHoliday.date, now, hostOffset) >= 0

\* the names of the built-in rules among a list of candidates
DefaultNames(candidates) ==
  { candidates[i].name :
      i \in { j \in 1..Len(candidates) : candidates[j].kind = "default" } }

\* C3: a disabled built-in rule is never the result of the search, and it is
\* a candidate of the search exactly while it is not disabled (so it is a
\* candidate again as soon as it is re-enabled).
C3_DisabledNeverReturned ==
  /\ nextHoliday.kind = "default"
       => ~Includes(disabledDefaultHolidays, nextHoliday.name)
  /\ DefaultNames(CurrentCandidates)
       = { HOLIDAYS[k] : k \in 1..Len(HOLIDAYS) }
           \ { disabledDefaultHolidays[k] :
                 k \in 1..Len(disabledDefaultHolidays) }

\* Christmas is disabled while it is the nearest built-in occurrence, and the
\* search has returned another rule
C3_Witness ==
  /\ Includes(disabledDefaultHolidays, "Christmas Day")
  /\ differenceInDays(HolidaysGetDate("Christmas Day", getFullYear(now)), now) >= 0
  /\ Rendered
  /\ nextHoliday.name # "Christmas Day"

DisplayedYear == getFullYear(currentDate)
YearsSearched == { getFullYear(now), getFullYear(now) + 1 }

\* C5: in a year with (year-1) mod 4 # 0 no calendar cell lists the
\* quadrennial rule, Inauguration Day.
C5_SentinelNeverMatched ==
  (showCalendar /\ (DisplayedYear - 1) % 4 # 0)
    => \A date \in DaysShown : "Inauguration Day" \notin NamesOn(date)

\* C6: a fixed solar rule, built-in or custom, resolves to a date whose month
\* and day are the rule's month and day fields.
C6_FixedSolarKeepsMonthDay ==
  \A year \in YearsSearched :
    /\ \A r \in UsFixedRules :
         /\ getMonth(UsGetDate(r.name, year, hostOffset)) + 1 = r.month
         /\ getDate(UsGetDate(r.name, year, hostOffset)) = r.day
    /\ \A i \in 1..Len(customHolidays) :
         (customHolidays[i].isFixed /\ ~customHolidays[i].isLunar)
           => /\ getMonth(CustomGetDate(customHolidays[i], year,
                                        hostOffset).date) + 1
                   = customHolidays[i].month
              /\ getDate(CustomGetDate(customHolidays[i], year,
                                       hostOffset).date)
                   = customHolidays[i].day

\* C7: the quadrennial rule resolves to January 20 of the year exactly when
\* (year-1) mod 4 = 0, and to the epoch instant, new Date(0), in every other
\* year.
C7_QuadrennialResolve ==
  /\ (DisplayedYear - 1) % 4 = 0
       => UsGetDate("Inauguration Day", DisplayedYear, hostOffset)
            = NewDate(DisplayedYear, 0, 20)
  /\ (DisplayedYear - 1) % 4 # 0
       => UsGetDate("Inauguration Day", DisplayedYear, hostOffset)
            = NewDate(1970, 0, 1) + hostOffset
  /\ (UsGetDate("Inauguration Day", DisplayedYear, hostOffset)
        = NewDate(DisplayedYear, 0, 20)) <=> ((DisplayedYear - 1) % 4 = 0)

\* the calendar shows a month of 2026, a year without an inauguration, and
\* the rule resolves to the epoch instant
C7_Witness ==
  /\ showCalendar
  /\ DisplayedYear = 2026
  /\ UsGetDate("Inauguration Day", DisplayedYear, hostOffset) = hostOffset

\* C8: a custom rule read back from the store resolves every year to the
\* date the rule object built by the settings form resolves to.
C8_ReloadedResolverAgrees ==
  \A i \in 1..Len(customHolidays) :
    customHolidays[i].resolver = "stored"
      => \A year \in YearsSearched :
           CustomGetDate(customHolidays[i], year, hostOffset)
             = FormGetDate(customHolidays[i], year, hostOffset)

\* what C9 expects of a conversion: the converted solar date, or the
\* year-9999 date when the converter raised
ConvertedOrSentinel(lunar) ==
  IF lunar.ok THEN [raised |-> FALSE, date |-> lunar.solarDate]
  ELSE [raised |-> FALSE, date |-> NewDate(9999, 0, 1)]

\* the lunar date a custom rule hands to the converter
ConvertedTriple(h, year) ==
  IF h.resolver = "form" THEN getNextValidLunarDate(year, h.month, h.day)
  ELSE [year |-> year, month |-> h.month, day |-> h.day]

\* C9: a lunar rule never raises; it returns the converted solar date, or the
\* year-9999 date when the conversion fails (built-in, custom, custom read
\* back from the store).
C9_LunarConvertedOrSentinel ==
  \A year \in YearsSearched :
    /\ \A r \in ChineseLunarRules :
         ChineseGetDate(r.name, year)
           = ConvertedOrSentinel(LunarFromYmd(year, r.month, r.day))
    /\ \A i \in 1..Len(customHolidays) :
         customHolidays[i].isLunar
           => CustomGetDate(customHolidays[i], year, hostOffset)
                = ConvertedOrSentinel(
                    LunarFromYmd(ConvertedTriple(customHolidays[i], year).year,
                                 ConvertedTriple(customHolidays[i], year).month,
                                 ConvertedTriple(customHolidays[i], year).day))

\* the lunar months and days the probe is exercised on: days around both
\* month lengths, a day below 1, a month the lunar year does not have
ProbeMonths == {5, 6, 13}
ProbeDays == {0, 1, 29, 30, 31, 32}

\* the first of the days tried, in order, that validates; the original day
\* when none does
RECURSIVE FirstValid(_, _, _, _, _)
FirstValid(year, month, day, tried, k) ==
  IF k > Len(tried) THEN [year |-> year, month |-> month, day |-> day]
  ELSE IF isValidLunarDate(year, month, tried[k])
       THEN [year |-> year, month |-> month, day |-> tried[k]]
       ELSE FirstValid(year, month, day, tried, k + 1)

C11_SentinelNeverReturned ==
  Rendered => /\ nextHoliday.date # NewDate(9999, 0, 1)
              /\ nextHoliday.date # NewDate(1970, 0, 1) + hostOffset

\* C12: while the catalog is unchanged and the clock advances, the
\* day-difference of the result does not grow, unless the occurrence returned
\* before has passed.
C12_DaysNonIncreasing ==
  [][(/\ customHolidays' = customHolidays
      /\ disabledDefaultHolidays' = disabledDefaultHolidays
      /\ now' > now
      /\ nextHoliday # NoHoliday
      /\ nextHoliday' # NoHoliday)
       => \/ DisplayedDays(nextHoliday'.date, now', hostOffset)
               <= DisplayedDays(nextHoliday.date, now, hostOffset)
          \/ DisplayedDays(nextHoliday.date, now', hostOffset) < 0]_vars

\* the day-difference of a candidate on dates normalized to the fixed zone
ShownDays(candidate) == DisplayedDays(candidate.date, now, hostOffset)

\* candidate i has the smallest non-negative day-difference
IsNearest(candidates, i) ==
  /\ ShownDays(candidates[i]) >= 0
  /\ \A j \in 1..Len(candidates) :
       ShownDays(candidates[j]) >= 0
         => ShownDays(candidates[i]) <= ShownDays(candidates[j])

\* candidate i is the first of several that share the smallest difference
FirstOfSeveral(candidates, i) ==
  /\ IsNearest(candidates, i)
  /\ \A k \in 1..(i - 1) : ~IsNearest(candidates, k)
  /\ \E j \in (i + 1)..Len(candidates) : IsNearest(candidates, j)

\* C13: when several candidates share the minimal day-difference the result
\* is the first of them in iteration order (built-ins this year, built-ins
\* next year, customs this year, customs next year), and the result is a
\* function of the catalog and the clock.
C13_FirstOfTiedWins ==
  /\ nextHoliday = calculateNextHoliday(now, disabledDefaultHolidays,
                                        customHolidays, hostOffset)
  /\ \A i \in 1..Len(CurrentCandidates) :
       FirstOfSeveral(CurrentCandidates, i)
         => nextHoliday = CurrentCandidates[i]

(***************************************************************************)
(* Properties of the calendar's list for a date                            *)
(***************************************************************************)
TypeRank(type) == CASE type = "US" -> 1 [] type = "Chinese" -> 2 [] OTHER -> 3

\* rule i of the merged list resolves to the month and day of the date
MatchesDate(all, i, date) ==
  /\ getMonth(all[i].date) = getMonth(date)
  /\ getDate(all[i].date) = getDate(date)

\* the list shown for a date: names are unique, the sets come in the order
\* US, Chinese, custom, every matching name is listed, and each entry is the
\* first rule of its name that matches
DedupFirstWins(all, date, list) ==
  /\ \A k \in 1..Len(list) : \A l \in 1..Len(list) :
       /\ (k # l) => list[k].name # list[l].name
       /\ (k < l) => TypeRank(list[k].type) <= TypeRank(list[l].type)
  /\ \A i \in 1..Len(all) :
       MatchesDate(all, i, date)
         => \E k \in 1..Len(list) : list[k].name = all[i].name
  /\ \A k \in 1..Len(list) :
       \E i \in 1..Len(all) :
         /\ MatchesDate(all, i, date)
         /\ all[i].name = list[k].name
         /\ all[i].type = list[k].type
         /\ \A j \in 1..(i - 1) :
              MatchesDate(all, j, date) => all[j].name # list[k].name

\* C14: for every date of a month of NearMinYear..NearMaxYear the calendar
\* shows, the list of the date has no two
\* entries of one name, is ordered US, Chinese, custom, and keeps for each
\* name the first matching rule in that order, so a custom rule named like a
\* built-in rule matching the same date is not listed.
C14_DedupFirstWins ==
  (showCalendar /\ DisplayedYear \in NearMinYear..NearMaxYear) =>
    \A date \in DaysShown :
      DedupFirstWins(AllHolidays(getFullYear(date), customHolidays,
                                 hostOffset),
                     date,
                     getHolidaysForDate(date, customHolidays, hostOffset))

\* October is shown, the user's Halloween rule resolves to October 31 and
\* the cell of that day lists Halloween once, as the US rule
C14_Witness ==
  /\ showCalendar
  /\ customHolidays = NamesakeCatalog
  /\ NewDate(DisplayedYear, 9, 31) \in DaysShown
  /\ CustomGetDate(customHolidays[1], DisplayedYear, hostOffset).date
       = NewDate(DisplayedYear, 9, 31)
  /\ getHolidaysForDate(NewDate(DisplayedYear, 9, 31), customHolidays,
                        hostOffset)
       = << [name |-> "Halloween", type |-> "US"] >>

(***************************************************************************)
(* Properties of the catalog and its store                                 *)
(***************************************************************************)
\* the data fields of a custom rule: everything but its getDate function
DataFields(h) ==
  [name |-> h.name, month |-> h.month, day |-> h.day, isFixed |-> h.isFixed,
   isLunar |-> h.isLunar, isCustom |-> h.isCustom]

\* C15: in every state the stored custom list is the in-memory list
\* projected onto its data fields, the stored disabled list is the in-memory
\* one, and the rules a reload would build have the data fields of the
\* rules in memory.
C15_StoreMirrorsCatalog ==
  /\ Len(storedCustom) = Len(customHolidays)
  /\ \A i \in 1..Len(customHolidays) :
       /\ storedCustom[i] = DataFields(customHolidays[i])
       /\ DataFields(Deserialize(storedCustom[i]))
            = DataFields(customHolidays[i])
  /\ storedDisabled = disabledDefaultHolidays

\* rules have been added and read back by a reload, and a default holiday
\* is disabled
C15_Witness ==
  /\ \E i \in 1..Len(customHolidays) : customHolidays[i].resolver = "stored"
  /\ \E i \in 1..Len(customHolidays) : customHolidays[i].resolver = "form"
  /\ Len(disabledDefaultHolidays) > 0

\* C16: a failing persistence write is swallowed.  While the store rejects
\* writes, a handler that changes the custom list or the disabled list leaves
\* the widget mounted: no exception leaves it and later steps can run.
C16_WriteFailureSwallowed ==
  [][(/\ mounted
      /\ ~crashed
      /\ storeFails
      /\ \/ customHolidays' # customHolidays
         \/ disabledDefaultHolidays' # disabledDefaultHolidays)
     => ~crashed']_vars

\* C17: loading never raises and drops the records that fail field-shape
\* validation.  Once the page is loaded, and unless a write has failed, the
\* widget is mounted and every custom rule in memory has a month in 1..12 and
\* a day in 1..31.
C17_LoadFiltersNeverRaises ==
  (mounted /\ ~storeFails) =>
    /\ ~crashed
    /\ \A i \in 1..Len(customHolidays) :
         /\ customHolidays[i].month \in 1..12
         /\ customHolidays[i].day \in 1..31

\* C18: after any sequence of adds, edits and removes no two custom rules
\* share a name.
C18_CustomNamesUnique ==
  \A i, j \in 1..Len(customHolidays) :
    customHolidays[i].name = customHolidays[j].name => i = j

\* C19: an edit keeps the name of every custom rule, the number and order of
\* the rules, every rule whose name is not the edited one, the isCustom mark
\* and the disabled list; the rules of the edited name take the submitted
\* month, day, isFixed and isLunar and the resolver the form builds.
\* a submit made while editing that passes the validation (it ends the
\* editing and leaves the modal open, which tells it from most other steps
\* before the handler itself is compared)
EditSubmitted ==
  /\ editingHoliday # NoEdit
  /\ editingHoliday' = NoEdit
  /\ showSettingsModal'
  /\ ~alertOpen'
  /\ SaveHoliday

EditFrame(before, after, name) ==
  /\ Len(after) = Len(before)
  /\ \A i \in 1..Len(before) :
       /\ after[i].name = before[i].name
       /\ after[i].isCustom = before[i].isCustom
       /\ before[i].name # name => after[i] = before[i]
       /\ before[i].name = name => after[i].resolver = "form"

C19_EditFrame ==
  [][EditSubmitted =>
       /\ EditFrame(customHolidays, customHolidays', editingHoliday.name)
       /\ disabledDefaultHolidays' = disabledDefaultHolidays]_vars

\* a rule named Y that is solar can only come from an edit: the form's
\* inputs named Y are lunar
C19_Witness ==
  /\ Len(customHolidays) = 2
  /\ customHolidays[1].name = "X"
  /\ customHolidays[2] = [name |-> "Y", month |-> 12, day |-> 24,
                          isFixed |-> TRUE, isLunar |-> FALSE,
                          isCustom |-> TRUE, resolver |-> "form"]
  /\ editingHoliday = NoEdit

\* C20: a submit of a lunar rule whose day is below 1 or above 30 is rejected
\* before any mutation: the step that raises the alert leaves the custom
\* list, the editing state and the store as they were, for an add and for an
\* edit, and no rule the form has built is lunar with a day outside 1..30.
C20_LunarDayRejected ==
  [][/\ (~alertOpen /\ alertOpen') =>
          /\ customHolidays' = customHolidays
          /\ editingHoliday' = editingHoliday
          /\ storedCustom' = storedCustom
          /\ storedDisabled' = storedDisabled
     /\ \A i \in 1..Len(customHolidays') :
          customHolidays'[i].isLunar => customHolidays'[i].day \in 1..30
     /\ \A i \in 1..Len(storedCustom') :
          storedCustom'[i].isLunar => storedCustom'[i].day \in 1..30]_vars

\* the alert is up after a rejected submit made while editing a rule
C20_Witness ==
  /\ alertOpen
  /\ editingHoliday # NoEdit
  /\ Len(customHolidays) = 2
  /\ storedCustom = PersistCustom(customHolidays)

(***************************************************************************)
(* Properties of the built-in floating rules, for the year the calendar     *)
(* shows (every year of MinYear..MaxYear is shown)                          *)
(***************************************************************************)
\* the date is in the given month (zero-based) of the year, on the given
\* weekday, with a day number in lo..hi
OnWeekdayWithin(date, year, monthIndex, weekday, lo, hi) ==
  /\ getFullYear(date) = year
  /\ getMonth(date) = monthIndex
  /\ getDay(date) = weekday
  /\ getDate(date) \in lo..hi

\* C22: Labor Day resolves to the Monday among September 1..7 of the year;
\* September 2 for 2024.
C22_LaborDayFirstMonday ==
  /\ OnWeekdayWithin(UsGetDate("Labor Day", DisplayedYear, hostOffset),
                     DisplayedYear, 8, 1, 1, 7)
  /\ UsGetDate("Labor Day", 2024, hostOffset) = NewDate(2024, 8, 2)

\* the calendar shows September 2024 and lists Labor Day on the 2nd
C22_Witness ==
  /\ showCalendar
  /\ currentDate = NewDate(2024, 8, 1)
  /\ "Labor Day" \in NamesOn(NewDate(2024, 8, 2))

\* C23: Memorial Day, in the calendar's table and in the countdown's table,
\* resolves to the Monday among May 25..31 of the year (May 27 for 2024), at
\* most 6 days before May 31.
C23_MemorialDayLastMonday ==
  /\ OnWeekdayWithin(UsGetDate("Memorial Day", DisplayedYear, hostOffset),
                     DisplayedYear, 4, 1, 25, 31)
  /\ (NewDate(DisplayedYear, 4, 31)
        - UsGetDate("Memorial Day", DisplayedYear, hostOffset))
       \div HoursPerDay \in 0..6
  /\ HolidaysGetDate("Memorial Day", DisplayedYear)
       = UsGetDate("Memorial Day", DisplayedYear, hostOffset)
  /\ UsGetDate("Memorial Day", 2024, hostOffset) = NewDate(2024, 4, 27)

\* the calendar shows May 2024 and lists Memorial Day on the 27th
C23_Witness ==
  /\ showCalendar
  /\ currentDate = NewDate(2024, 4, 1)
  /\ "Memorial Day" \in NamesOn(NewDate(2024, 4, 27))

\* first-of-month + ((targetWeekday - firstWeekday + 7) mod 7) + 7(N - 1)
NthWeekdayFormula(year, monthIndex, targetWeekday, n) ==
  NewDate(year, monthIndex, 1)
    + HoursPerDay * (((targetWeekday - getDay(NewDate(year, monthIndex, 1)) + 7)
                        % 7) + 7 * (n - 1))

\* the rule resolves to the n-th given weekday of the month, as the formula
IsNthWeekday(date, year, monthIndex, weekday, n) ==
  /\ OnWeekdayWithin(date, year, monthIndex, weekday, 7 * (n - 1) + 1, 7 * n)
  /\ date = NthWeekdayFormula(year, monthIndex, weekday, n)

\* C24: Martin Luther King Jr. Day and Presidents' Day resolve to the third
\* Monday of January and February, Columbus Day to the second Monday of
\* October, Thanksgiving to the fourth Thursday of November, each the date
\* the formula gives.
C24_NthWeekdayRules ==
  /\ IsNthWeekday(UsGetDate("Martin Luther King Jr. Day", DisplayedYear,
                            hostOffset), DisplayedYear, 0, 1, 3)
  /\ IsNthWeekday(HolidaysGetDate("Martin Luther King Jr. Day", DisplayedYear),
                  DisplayedYear, 0, 1, 3)
  /\ IsNthWeekday(UsGetDate("Presidents' Day", DisplayedYear, hostOffset),
                  DisplayedYear, 1, 1, 3)
  /\ IsNthWeekday(UsGetDate("Columbus Day", DisplayedYear, hostOffset),
                  DisplayedYear, 9, 1, 2)
  /\ IsNthWeekday(UsGetDate("Thanksgiving Day", DisplayedYear, hostOffset),
                  DisplayedYear, 10, 4, 4)
  /\ IsNthWeekday(HolidaysGetDate("Thanksgiving", DisplayedYear),
                  DisplayedYear, 10, 4, 4)

\* the calendar shows November 2023, which starts on a Wednesday, and lists
\* Thanksgiving Day on the 23rd
C24_Witness ==
  /\ showCalendar
  /\ currentDate = NewDate(2023, 10, 1)
  /\ getDay(currentDate) = 3
  /\ "Thanksgiving Day" \in NamesOn(NewDate(2023, 10, 23))

\* C27: Easter Sunday resolves to a Sunday of the year between March 22 and
\* April 25.
C27_EasterSundayInRange ==
  /\ getFullYear(UsGetDate("Easter Sunday", DisplayedYear, hostOffset))
       = DisplayedYear
  /\ getDay(UsGetDate("Easter Sunday", DisplayedYear, hostOffset)) = 0
  /\ UsGetDate("Easter Sunday", DisplayedYear, hostOffset)
       >= NewDate(DisplayedYear, 2, 22)
  /\ UsGetDate("Easter Sunday", DisplayedYear, hostOffset)
       <= NewDate(DisplayedYear, 3, 25)

\* the calendar shows April 2038, the year of a late Easter, and lists it on
\* the 25th
C27_Witness ==
  /\ showCalendar
  /\ currentDate = NewDate(2038, 3, 1)
  /\ "Easter Sunday" \in NamesOn(NewDate(2038, 3, 25))

\* C26: in every state of the mounted widget the settings button is on the
\* page, so the settings modal with its checkboxes and its form can be
\* opened, also when every built-in rule is disabled and there is no custom
\* rule.
C26_SettingsReachable ==
  (mounted /\ ~crashed /\ Len(disabledDefaultHolidays) > 0) => Rendered

(***************************************************************************)
(* Properties of the Clock's special dates                                 *)
(***************************************************************************)
DaysInMonth(year, month) ==
  DaysFromCivil(year + (month \div 12), (month % 12) + 1, 1)
    - DaysFromCivil(year, month, 1)

\* days from today to the day month/day of the year; -1 when the year has
\* no such day
DaysToOccurrence(year, month, day, today) ==
  IF day \in 1..DaysInMonth(year, month)
  THEN DaysFromCivil(year, month, day) - DayNumber(today)
  ELSE -1

\* days to the next occurrence: this year's if it is today or later,
\* otherwise next year's
DaysToNext(sDate, today) ==
  IF DaysToOccurrence(getFullYear(today), sDate.month, sDate.day, today) >= 0
  THEN DaysToOccurrence(getFullYear(today), sDate.month, sDate.day, today)
  ELSE DaysToOccurrence(getFullYear(today) + 1, sDate.month, sDate.day, today)

\* the entries upcomingWithin is to return, in the order of the list
ExpectedUpcoming(dates, today) ==
  SeqMap(LAMBDA sDate : UpcomingEntry(sDate, DaysToNext(sDate, today)),
         SelectSeq(dates, LAMBDA sDate : DaysToNext(sDate, today) \in 0..7))

Occurrences(seq, e) == Cardinality({ i \in 1..Len(seq) : seq[i] = e })

SameEntries(a, b) ==
  /\ Len(a) = Len(b)
  /\ \A i \in 1..Len(a) : Occurrences(a, a[i]) = Occurrences(b, a[i])

\* C21: the Clock lists, ascending by days, exactly one entry for each
\* special date whose next occurrence is 0 to 7 days after the start of
\* today, with that distance as days, and nothing else.
C21_UpcomingWithinWeek ==
  /\ \A i \in 1..(Len(nextSpecialDateInfo) - 1) :
       nextSpecialDateInfo[i].days <= nextSpecialDateInfo[i + 1].days
  /\ SameEntries(nextSpecialDateInfo,
                 ExpectedUpcoming(specialDates, setHoursZero(now)))

\* C28: the list the Clock works on is the list in the store, also after the
\* manager has written it.
C28_ClockSeesStoredList ==
  specialDates = storedSpecialDates

\* a configuration as handleSaveSettings leaves it
Saved ==
  /\ workDuration = ValidDuration(workDuration)
  /\ breakDuration = ValidDuration(breakDuration)

\* C29: with a configuration the settings form can save, timeLeft does not
\* become negative, and a countdown at 0 makes one transition: the timer stops, the
\* phase toggles, timeLeft becomes the duration of the other phase, a
\* session is counted iff a work phase ended, and the state the transition
\* leaves has no further transition pending.
C29_OnePhaseEndPerCountdown ==
  [][(Saved /\ timeLeft >= 0) =>
       /\ timeLeft' >= 0
       /\ timeLeft = 0 =>
            /\ ~isRunning'
            /\ isBreak' = ~isBreak
            /\ timeLeft' = IF isBreak' THEN getTotalSeconds(breakDuration)
                           ELSE getTotalSeconds(workDuration)
            /\ completedSessions' =
                 completedSessions + (IF isBreak THEN 0 ELSE 1)
            /\ timeLeft' # 0]_vars

\* the place of the selected task in the list as shown
SelectedIndex == findIndex(sortedTasks(tasks), selectedTaskId)

\* the list as shown after the selected task has changed places with the
\* task shown at place other
ShownSwapped(other) ==
  /\ sortedTasks(tasks') = Swap(sortedTasks(tasks), SelectedIndex, other)
  /\ selectedTaskId' = selectedTaskId
  /\ { tasks'[i] : i \in 1..Len(tasks') } = { tasks[i] : i \in 1..Len(tasks) }
  /\ Len(tasks') = Len(tasks)

\* C30: ArrowUp moves the selected task one place up in the list as shown and
\* ArrowDown one place down, by changing places with its neighbour there; the
\* selection stays on the task and the tasks and their fields stay as they
\* are.
C30_ArrowsSwapShownNeighbours ==
  [][/\ ArrowUp => ShownSwapped(SelectedIndex - 1)
     /\ ArrowDown => ShownSwapped(SelectedIndex + 1)]_vars

\* C25: of each recurring timer (the one-second tick and the hourly
\* recomputation of the Clock, the hourly recomputation of the countdown, the
\* countdown of the Pomodoro) at most one interval is live, also after the
\* effect that sets it has run again, and none is live once the widgets are
\* torn down.
C25_TimersCancelled ==
  /\ \A t \in DOMAIN liveTimers : liveTimers[t] <= 1
  /\ ~Live => liveTimers = NoTimers

\* every effect that sets an interval has run again, the Pomodoro was
\* counting down, and the tree has been torn down
C25_Witness ==
  /\ ~Live
  /\ ticks > 0
  /\ disabledDefaultHolidays # <<>>
  /\ isRunning /\ timeLeft > 0
  /\ liveTimers = NoTimers

====
